---- MODULE Spec2Model ----
(***************************************************************************)
(* Model of the Google API client of app-google-docs:                      *)
(*   - GoogleApi (src/src/google/google.ts): service-account token cache   *)
(*     and the authenticated request method;                               *)
(*   - GoogleDocsApi.updateById (src/src/google/docs.ts): full-body        *)
(*     replace as a structure fetch followed by one batch update.          *)
(*   - GoogleSheetsApi (src/src/google/sheets.ts): resolveA1Target,        *)
(*     columnLettersToIndex, updateById and valuesUpdate;                  *)
(*   - getGoogleAccessToken of src/src/utils.ts and the command handlers.  *)
(* Every async call chain is a caller p; it is suspended only at the       *)
(* awaits of a network call (pc = "exch": token exchange in flight,        *)
(* pc = "api": API call in flight).  The code between two such awaits      *)
(* runs without interruption on the single JavaScript thread and is one    *)
(* action here.                                                            *)
(***************************************************************************)
EXTENDS Integers, Sequences, FiniteSets, TLC

\* ---------------------------------------------------------------- bounds
NProcs == 2          \* concurrent callers
NInst == 2           \* GoogleApi instances
MaxTicks == 2        \* clock advances
MaxReturns == 1      \* operations a caller may start again after
MaxEdits == 1        \* changes another writer makes to the remote document
MaxCell == 3         \* characters of the cell part of an A1 address
MaxLetters == 3      \* letters of a column name
TickMs == 300000     \* one clock advance, in ms

Procs == 1..NProcs
Inst == 1..NInst

\* ------------------------------------------------------ program constants
MarginMs == 5 * 60 * 1000
DefaultExpiresInSec == 3600

NoToken == 0         \* accessToken = null
Absent == -1         \* a JSON field that is not present

Methods == {"GET", "POST", "PUT", "PATCH", "DELETE"}

\* ------------------------------------------------------------ credentials
\* A field of the credentials object is present (TRUE) or missing/empty.
CredSet ==
  { [client_email |-> TRUE,  private_key |-> TRUE,  token_uri |-> TRUE],
    [client_email |-> FALSE, private_key |-> TRUE,  token_uri |-> TRUE],
    [client_email |-> TRUE,  private_key |-> FALSE, token_uri |-> TRUE],
    [client_email |-> TRUE,  private_key |-> TRUE,  token_uri |-> FALSE] }

\* Mutant of Constructor: token_uri is not checked.
ConstructorNoUri(c) ==
  IF ~c.client_email \/ ~c.private_key THEN "threw" ELSE "ready"

\* The constructor's check: it throws unless all three fields are truthy.
Constructor(c) ==
  IF ~c.client_email \/ ~c.private_key \/ ~c.token_uri THEN "threw" ELSE "ready"

\* ------------------------------------------------------------ request args
\* opts.body of request: undefined, null or an object.
Undefined == [t |-> "undefined", requests |-> <<>>]
Null == [t |-> "null", requests |-> <<>>]
Obj == [t |-> "object", requests |-> <<>>]
BodyArgs == {Undefined, Null, Obj}

\* JSON.stringify(opts.body): the serialized text, kept as a tagged value.
NoBody == <<>>
Stringify(b) == <<"json", b>>

\* --------------------------------------------------------- sheets inputs
\* Strings handled character by character are sequences of char codes.
Space == 32
Bang == 33
Quote == 39
Colon == 58
Digit0 == 48
Digit9 == 57
UpperA == 65
UpperZ == 90
LowerA == 97
LowerZ == 122

\* spreadsheet.sheets as getById may return it: undefined, something that is
\* not an array, or an array of sheets with properties.title and
\* properties.sheetId (Absent: no sheetId).
Sheet(title, sheetId) == [title |-> title, sheetId |-> sheetId]
NoSheets == [kind |-> "undefined", list |-> <<>>]
SheetS == <<83>>
SheetT == <<84>>
SheetMS == <<77, Space, 83>>
Spreadsheets ==
  { NoSheets,
    [kind |-> "object", list |-> <<>>],
    [kind |-> "array", list |-> <<>>],
    [kind |-> "array", list |-> <<Sheet(SheetS, 0)>>],
    [kind |-> "array",
     list |-> <<Sheet(SheetS, 0), Sheet(SheetT, 7), Sheet(SheetMS, 5)>>],
    [kind |-> "array", list |-> <<Sheet(SheetS, Absent), Sheet(SheetT, 7)>>] }

\* What an address may carry up to and including its first "!".
SheetPrefixes ==
  { <<>>, <<Bang>>, <<Quote, Quote, Bang>>, <<Quote, Bang>>,
    SheetS \o <<Bang>>, SheetT \o <<Bang>>, <<85, Bang>>,
    <<Quote>> \o SheetT \o <<Quote, Bang>>,
    <<Quote>> \o SheetMS \o <<Quote, Bang>>,
    SheetMS \o <<Bang>>,
    <<Space>> \o SheetT \o <<Space, Bang>>,
    <<Quote>> \o SheetT \o <<Bang>> }

\* The rest of the address: every string of at most MaxCell characters
\* over B, Z, b, 0, 2, ":" and the space.
CellChars == { 66, UpperZ, 98, Digit0, 50, Colon, Space }
Strings(chars, n) == UNION { [1..k -> chars] : k \in 0..n }
Ranges == { <<66, 50, Colon, UpperZ, 50>>, <<66, 50, Colon, UpperZ, 50, Digit0>> }
Addresses ==
  { pre \o cell : pre \in SheetPrefixes,
                  cell \in Strings(CellChars, MaxCell) \cup Ranges }

\* Addresses, cell text and value matrices given to the sheets operations:
\* "", "A1", "B2", "T!B2", "U!B2", "B0" and the range "B2:Z2".
CellAddresses ==
  { <<>>, <<UpperA, 49>>, <<66, 50>>, SheetT \o <<Bang, 66, 50>>,
    <<85, Bang, 66, 50>>, <<66, Digit0>>, <<66, 50, Colon, UpperZ, 50>> }
CellTexts == { "hello" }
Matrices == { << <<"a", "b">>, <<"c", "d">> >> }

\* Column names: every string of 1 to MaxLetters letters A-Z.
ColumnNames == Strings(UpperA..UpperZ, MaxLetters) \ {<<>>}

\* ----------------------------------------------------- remote responses
\* Response.ok of fetch.
Ok(status) == status >= 200 /\ status <= 299

\* Responses of the token endpoint.
ExchResps ==
  { [status |-> 200, expires_in |-> Absent, text |-> ""],
    [status |-> 200, expires_in |-> 600, text |-> ""],
    [status |-> 400, expires_in |-> Absent, text |-> "invalid_grant"] }

\* Document payloads of GET /v1/documents/{id}: body missing, content empty,
\* or content whose last block has the given endIndex (Absent: no endIndex,
\* NonNumeric: an endIndex that is not a number).
NonNumeric == -2
NoDoc == [hasBody |-> FALSE, content |-> <<>>]
Docs ==
  { NoDoc, [hasBody |-> TRUE, content |-> <<>>] } \cup
  { [hasBody |-> TRUE, content |-> <<[endIndex |-> e]>>] :
      e \in {Absent, NonNumeric, 1, 2, 3} } \cup
  { [hasBody |-> TRUE, content |-> <<[endIndex |-> 3], [endIndex |-> e]>>] :
      e \in {Absent, NonNumeric, 42} }

\* File metadata of GET /drive/v3/files/{id}; "" stands for no mimeType.
SheetsMime == "application/vnd.google-apps.spreadsheet"
DocsMime == "application/vnd.google-apps.document"
DriveFiles == { [mimeType |-> m] : m \in {SheetsMime, DocsMime, ""} }

\* Responses of an API endpoint: status, raw text, whether the text parses
\* as JSON, and the parsed payload when the endpoint is documents.get (a
\* document) or spreadsheets.get (a spreadsheet).
ApiResps(path) ==
  { [status |-> 404, text |-> "not found", json |-> FALSE, doc |-> NoDoc],
    [status |-> 500, text |-> "", json |-> FALSE, doc |-> NoDoc],
    [status |-> 204, text |-> "", json |-> FALSE, doc |-> NoDoc] } \cup
  IF path = "documents.get"
    THEN { [status |-> 200, text |-> "doc", json |-> TRUE, doc |-> d] : d \in Docs }
  ELSE IF path = "spreadsheets.get"
    THEN { [status |-> 200, text |-> "spreadsheet", json |-> TRUE, doc |-> d] :
             d \in Spreadsheets }
  ELSE IF path = "drive.files.get"
    THEN { [status |-> 200, text |-> "file", json |-> TRUE, doc |-> d] :
             d \in DriveFiles }
    ELSE { [status |-> 200, text |-> "{}", json |-> TRUE, doc |-> NoDoc] }

Texts == {"new"}

\* The body of a remote Google document, one character per position from
\* index 1 on; its last character is the newline that ends the last
\* paragraph, which the Docs API refuses to delete (docs.ts:15-19, 83-85).
Newline == "\n"
EmptyBody == <<Newline>>
RemoteBodies == { EmptyBody, <<"x", Newline>>, <<"x", "y", Newline>> }

\* Texts written by updateById, as character sequences.
DocTexts == { <<"a">>, <<"a", "b">> }

\* ------------------------------------------------------------------ state
VARIABLES
  clock,                    \* Date.now(), ms since an arbitrary origin
  ticks,                    \* number of clock advances so far
  creds,                    \* credentials given to each constructor
  inst,                     \* "ready" or "threw" (constructor failed)
  accessToken,              \* GoogleApi.accessToken per instance
  accessTokenExpiresAtMs,   \* GoogleApi.accessTokenExpiresAtMs per instance
  issued,                   \* tokens issued by the token endpoint so far
  returns,                  \* operations finished and left behind
  pc,                       \* position of each caller
  cur,                      \* the operation and request a caller is in
  now,                      \* `now` of the caller's running getAccessToken
  seen,                     \* cache as read by that getAccessToken
  calls,                    \* network calls issued by the caller's operation
  resps,                    \* responses received, one per completed call
  outcome,                  \* what the operation returned or threw
  remote,                   \* body of the remote Google document
  history,                  \* reads and writes the remote document has served
  args,                     \* arguments of a pure function under evaluation
  ret,                      \* what that function returned or threw
  cachedToken,              \* utils.ts: module-level cachedToken
  tokenExpiry,              \* utils.ts: module-level tokenExpiry
  exchangedAt,              \* clock at the last successful exchange of utils.ts
  env,                      \* the service-account secret of the environment
  cmd,                      \* the command handler running, its params and stage
  results                   \* results the handler has written (docgo.result)

docsVars == <<remote, history>>
fnVars == <<args, ret>>
utilsVars == <<cachedToken, tokenExpiry, exchangedAt>>
cmdVars == <<env, cmd, results>>
others == <<fnVars, utilsVars, cmdVars>>
apiVars == <<clock, ticks, creds, inst, accessToken, accessTokenExpiresAtMs,
             issued, returns, pc, cur, now, seen, calls, resps, outcome>>

vars == <<apiVars, docsVars, others>>

NoRange == <<>>
NoQuery == ""
NoCur == [op |-> "none", inst |-> 0, req |-> 0, method |-> "GET",
          path |-> "none", range |-> NoRange, query |-> NoQuery,
          body |-> Undefined, text |-> "", doc |-> NoDoc]
NoOutcome == [kind |-> "none", msg |-> "", status |-> 0, text |-> "",
              doc |-> NoDoc]
NoSeen == [token |-> NoToken, expiresAtMs |-> 0]

InitApi ==
  /\ clock = 0
  /\ ticks = 0
  /\ creds \in [Inst -> CredSet]
  /\ inst = [i \in Inst |-> Constructor(creds[i])]
  /\ accessToken = [i \in Inst |-> NoToken]
  /\ accessTokenExpiresAtMs = [i \in Inst |-> 0]
  /\ issued = 0
  /\ returns = 0
  /\ pc = [p \in Procs |-> "idle"]
  /\ cur = [p \in Procs |-> NoCur]
  /\ now = [p \in Procs |-> 0]
  /\ seen = [p \in Procs |-> NoSeen]
  /\ calls = [p \in Procs |-> <<>>]
  /\ resps = [p \in Procs |-> <<>>]
  /\ outcome = [p \in Procs |-> NoOutcome]

NoArgs == [fn |-> "none", spreadsheet |-> NoSheets, inputRange |-> <<>>,
           letters |-> <<>>]
NoRet == [state |-> "none", msg |-> "", value |-> 0]

\* No handler is running: params and stage of the last one.
NoParams == [shape |-> "undefined", id |-> FALSE, content |-> FALSE,
             range |-> <<>>]
NoCmd == [handler |-> "none", params |-> NoParams, stage |-> "none",
          step |-> 0]

InitDocs == remote = EmptyBody /\ history = <<>>
InitFn == args = NoArgs /\ ret = NoRet
InitUtils == cachedToken = NoToken /\ tokenExpiry = 0 /\ exchangedAt = 0
InitCmd == env = "present" /\ cmd = NoCmd /\ results = <<>>

Init == InitApi /\ InitDocs /\ InitFn /\ InitUtils /\ InitCmd

\* --------------------------------------------------------- getAccessToken
\* Mutant of CacheValid: the 5-minute margin is forgotten.
CacheValidNoMargin(token, expiresAtMs, nowMs) ==
  token # NoToken /\ expiresAtMs > nowMs

\* Mutant of CacheValid: a cached token is served whatever its expiry.
CacheValidAnyExpiry(token, expiresAtMs, nowMs) == token # NoToken

\* The cache test of getAccessToken (google.ts:285).
CacheValid(token, expiresAtMs, nowMs) ==
  token # NoToken /\ expiresAtMs > nowMs + MarginMs

\* expires_in with its default (google.ts:308).
ExpiresInSec(r) ==
  IF r.expires_in = Absent THEN DefaultExpiresInSec ELSE r.expires_in

\* Mutant of ExpiresAtMs: the expiry counts from the instant the answer of
\* the exchange arrives.
ExpiresAtMsFromAnswer(nowMs, r) == clock + ExpiresInSec(r) * 1000

\* Expiry written by getAccessToken (google.ts:309).
ExpiresAtMs(nowMs, r) == nowMs + ExpiresInSec(r) * 1000

ExchangeCall(c) ==
  [kind |-> "exchange", inst |-> c.inst, req |-> c.req, method |-> "POST",
   path |-> "token_uri", range |-> NoRange, query |-> NoQuery,
   auth |-> NoToken, ctype |-> FALSE, body |-> NoBody]

\* ---------------------------------------------------------------- request
\* Mutant of HasPayload: DELETE is taken for a method with a payload.
HasPayloadDelete(c) ==
  c.method # "GET" /\ c.body # Undefined

\* Headers and body of request (google.ts:186-206).
HasPayload(c) ==
  c.method # "GET" /\ c.method # "DELETE" /\ c.body # Undefined

ApiCall(c, token) ==
  [kind |-> "api", inst |-> c.inst, req |-> c.req, method |-> c.method,
   path |-> c.path, range |-> c.range, query |-> c.query,
   auth |-> token, ctype |-> HasPayload(c),
   body |-> IF HasPayload(c) THEN Stringify(c.body) ELSE NoBody]

\* Mutant of Fetch: the API call is sent a second time.
FetchTwice(p, c, token) ==
  /\ pc' = [pc EXCEPT ![p] = "api"]
  /\ calls' = [calls EXCEPT ![p] =
       Append(Append(@, ApiCall(c, token)), ApiCall(c, token))]

\* request from the token on: the API is fetched (google.ts:182-206).
Fetch(p, c, token) ==
  /\ pc' = [pc EXCEPT ![p] = "api"]
  /\ calls' = [calls EXCEPT ![p] = Append(@, ApiCall(c, token))]

\* Mutant of Exchange: a caller that finds an exchange of its instance in
\* flight waits for that one instead of issuing its own.
ExchangeCoalesced(p, c) ==
  /\ pc' = [pc EXCEPT ![p] = "exch"]
  /\ calls' = [calls EXCEPT ![p] =
       IF \E q \in Procs : q # p /\ pc[q] = "exch" /\ cur[q].inst = c.inst
         THEN @ ELSE Append(@, ExchangeCall(c))]

\* getAccessToken without a valid cache: the exchange is fetched
\* (google.ts:289-297).
Exchange(p, c) ==
  /\ pc' = [pc EXCEPT ![p] = "exch"]
  /\ calls' = [calls EXCEPT ![p] = Append(@, ExchangeCall(c))]

\* request up to its first suspension: getAccessToken reads the clock and the
\* cache; on a hit request goes on to fetch the API, on a miss the exchange
\* is fetched and the caller waits for it.
Enter(p, c) ==
  LET i == c.inst
      hit == CacheValid(accessToken[i], accessTokenExpiresAtMs[i], clock)
  IN /\ cur' = [cur EXCEPT ![p] = c]
     /\ now' = [now EXCEPT ![p] = clock]
     /\ seen' = [seen EXCEPT ![p] = [token |-> accessToken[i],
                                     expiresAtMs |-> accessTokenExpiresAtMs[i]]]
     /\ IF hit THEN Fetch(p, c, accessToken[i]) ELSE Exchange(p, c)

\* Callers are numbered in the order of their calls.
MayStart(p) == pc[p] = "idle" /\ \A q \in Procs : q < p => pc[q] # "idle"

\* google.get / post / put / patch / delete -> request.
Request(p, i, m, b) ==
  /\ MayStart(p)
  /\ inst[i] = "ready"
  /\ Enter(p, [op |-> "request", inst |-> i, req |-> 1, method |-> m,
               path |-> "any", range |-> NoRange, query |-> NoQuery,
               body |-> b, text |-> "", doc |-> NoDoc])
  /\ UNCHANGED <<clock, ticks, creds, inst, accessToken, accessTokenExpiresAtMs,
                 issued, returns, resps, outcome, docsVars, others>>

\* GoogleDocsApi.updateById up to its first suspension: getById.
UpdateById(p, i, t) ==
  /\ MayStart(p)
  /\ inst[i] = "ready"
  /\ Enter(p, [op |-> "updateById", inst |-> i, req |-> 1, method |-> "GET",
               path |-> "documents.get", range |-> NoRange,
               query |-> NoQuery, body |-> Undefined, text |-> t,
               doc |-> NoDoc])
  /\ UNCHANGED <<clock, ticks, creds, inst, accessToken, accessTokenExpiresAtMs,
                 issued, returns, resps, outcome, docsVars, others>>

\* Mutant of ExchangeFailed: the exchange is tried again.
ExchangeRetried(p, r) ==
  /\ pc' = [pc EXCEPT ![p] = "exch"]
  /\ calls' = [calls EXCEPT ![p] = Append(@, ExchangeCall(cur[p]))]
  /\ UNCHANGED <<accessToken, accessTokenExpiresAtMs, outcome>>

\* Mutant of ExchangeFailed: the failure is swallowed and request goes on
\* without a token.
ExchangeIgnored(p, r) ==
  /\ Fetch(p, cur[p], NoToken)
  /\ UNCHANGED <<accessToken, accessTokenExpiresAtMs, outcome>>

\* Mutant of ExchangeFailed: the cache is cleared before the error is
\* thrown.
ExchangeFailedClears(p, r) ==
  /\ pc' = [pc EXCEPT ![p] = "failed"]
  /\ outcome' = [outcome EXCEPT ![p] =
       [kind |-> "error", msg |-> "Erro ao obter access token",
        status |-> r.status, text |-> r.text, doc |-> NoDoc]]
  /\ accessToken' = [accessToken EXCEPT ![cur[p].inst] = NoToken]
  /\ accessTokenExpiresAtMs' = [accessTokenExpiresAtMs EXCEPT ![cur[p].inst] = 0]
  /\ UNCHANGED calls

\* getAccessToken on a non-success answer: it throws (google.ts:299-302).
ExchangeFailed(p, r) ==
  /\ pc' = [pc EXCEPT ![p] = "failed"]
  /\ outcome' = [outcome EXCEPT ![p] =
       [kind |-> "error", msg |-> "Erro ao obter access token",
        status |-> r.status, text |-> r.text, doc |-> NoDoc]]
  /\ UNCHANGED <<accessToken, accessTokenExpiresAtMs, calls>>

\* Mutant of StoreToken: one cache for all instances, as a module-level
\* variable would be.
StoreTokenShared(i, token, expiresAtMs) ==
  /\ accessToken' = [j \in Inst |-> token]
  /\ accessTokenExpiresAtMs' = [j \in Inst |-> expiresAtMs]

\* Mutant of StoreToken: the token is always written, the expiry only when
\* it is later than the cached one.
StoreTokenLaterExpiry(i, token, expiresAtMs) ==
  /\ accessToken' = [accessToken EXCEPT ![i] = token]
  /\ accessTokenExpiresAtMs' =
       [accessTokenExpiresAtMs EXCEPT
          ![i] = IF @ > expiresAtMs THEN @ ELSE expiresAtMs]

\* The two cache writes of getAccessToken (google.ts:306-309).
StoreToken(i, token, expiresAtMs) ==
  /\ accessToken' = [accessToken EXCEPT ![i] = token]
  /\ accessTokenExpiresAtMs' = [accessTokenExpiresAtMs EXCEPT ![i] = expiresAtMs]

\* The token endpoint answers caller p (google.ts:299-311); on success
\* getAccessToken returns into request, which fetches the API.
ExchangeDone(p, r) ==
  LET c == cur[p]
      token == IF Ok(r.status) THEN issued + 1 ELSE NoToken
  IN /\ pc[p] = "exch"
     /\ resps' = [resps EXCEPT ![p] = Append(@, [status |-> r.status,
                                                 text |-> r.text,
                                                 token |-> token,
                                                 expires_in |-> r.expires_in,
                                                 doc |-> NoDoc])]
     /\ issued' = IF Ok(r.status) THEN token ELSE issued
     /\ IF ~Ok(r.status)
          THEN ExchangeFailed(p, r)
          ELSE /\ StoreToken(c.inst, token, ExpiresAtMs(now[p], r))
               /\ Fetch(p, c, token)
               /\ UNCHANGED outcome
     /\ UNCHANGED <<clock, ticks, creds, inst, returns, cur, now, seen,
                    docsVars, others>>

Tick ==
  /\ ticks < MaxTicks
  /\ ticks' = ticks + 1
  /\ clock' = clock + TickMs
  /\ UNCHANGED <<creds, inst, accessToken, accessTokenExpiresAtMs, issued,
                 returns, pc, cur, now, seen, calls, resps, outcome,
                 docsVars, others>>

\* ---------------------------------------------------- GoogleDocsApi.updateById
IsNumber(v) == v >= 0

Max(a, b) == IF a >= b THEN a ELSE b

\* Mutant of EndIndex: the last block that has a numeric endIndex is used.
EndIndexAnyBlock(doc) ==
  LET content == IF doc.hasBody THEN doc.content ELSE <<>>
      nums == { k \in DOMAIN content : IsNumber(content[k].endIndex) }
  IN IF nums # {}
       THEN content[CHOOSE k \in nums : \A j \in nums : j <= k].endIndex
       ELSE 1

\* Mutant of EndIndex: the end index of the first structure ever fetched is
\* kept and used by the later calls.
EndIndexKept(doc) ==
  LET reads == { h \in DOMAIN history : history[h].kind = "read" }
  IN IF reads # {}
       THEN Len(history[CHOOSE h \in reads : \A g \in reads : h <= g].body) + 1
       ELSE IF doc.hasBody /\ Len(doc.content) > 0
                 /\ IsNumber(doc.content[Len(doc.content)].endIndex)
         THEN doc.content[Len(doc.content)].endIndex
         ELSE 1

\* endIndex of the last block of body.content, 1 when there is none
\* (docs.ts:77-81).
EndIndex(doc) ==
  LET content == IF doc.hasBody THEN doc.content ELSE <<>>
  IN IF Len(content) > 0 /\ IsNumber(content[Len(content)].endIndex)
       THEN content[Len(content)].endIndex
       ELSE 1

\* Mutant of DeleteEnd: the trailing position is not spared.
DeleteEndWhole(endIndex) == Max(1, endIndex)

\* The upper bound of the deletion (docs.ts:85).
DeleteEnd(endIndex) == Max(1, endIndex - 1)

DeleteContentRange(s, e) ==
  [type |-> "deleteContentRange", startIndex |-> s, endIndex |-> e,
   index |-> 0, text |-> ""]

InsertText(at, data) ==
  [type |-> "insertText", startIndex |-> 0, endIndex |-> 0,
   index |-> at, text |-> data]

\* Mutant of Requests: the old content is not deleted.
RequestsInsertOnly(doc, data) == <<InsertText(1, data)>>

\* Mutant of Requests: the new text is inserted before the old content is
\* deleted.
RequestsInsertFirst(doc, data) ==
  LET deleteEnd == DeleteEnd(EndIndex(doc))
  IN <<InsertText(1, data)>>
       \o (IF deleteEnd > 1 THEN <<DeleteContentRange(1, deleteEnd)>> ELSE <<>>)

\* The request list of the batch update (docs.ts:87-109).
Requests(doc, data) ==
  LET deleteEnd == DeleteEnd(EndIndex(doc))
  IN (IF deleteEnd > 1 THEN <<DeleteContentRange(1, deleteEnd)>> ELSE <<>>)
       \o <<InsertText(1, data)>>

\* ------------------------------------------------- GoogleSheetsApi helpers
Returned(v) == [state |-> "returned", msg |-> "", value |-> v]
Threw(msg) == [state |-> "threw", msg |-> msg, value |-> 0]

IsSpace(c) == c \in {9, 10, 11, 12, 13, Space}
IsDigit(c) == c >= Digit0 /\ c <= Digit9
IsUpper(c) == c >= UpperA /\ c <= UpperZ
IsLower(c) == c >= LowerA /\ c <= LowerZ
IsLetter(c) == IsUpper(c) \/ IsLower(c)

Min(S) == CHOOSE x \in S : \A y \in S : x <= y
Last(S) == CHOOSE x \in S : \A y \in S : y <= x

\* String.prototype.trim.
Trim(str) ==
  LET kept == { k \in DOMAIN str : ~IsSpace(str[k]) }
  IN IF kept = {} THEN <<>> ELSE SubSeq(str, Min(kept), Last(kept))

\* String.prototype.indexOf for one character; positions count from 1 and
\* NotFound stands for -1.
NotFound == 0
IndexOf(str, c) ==
  LET at == { k \in DOMAIN str : str[k] = c }
  IN IF at = {} THEN NotFound ELSE Min(at)

\* String.prototype.toUpperCase.
ToUpperCase(str) ==
  [k \in DOMAIN str |-> IF IsLower(str[k]) THEN str[k] - 32 ELSE str[k]]

\* parseInt(digits, 10) of a string of decimal digits.
RECURSIVE ParseInt(_)
ParseInt(digits) ==
  IF digits = <<>> THEN 0
  ELSE ParseInt(SubSeq(digits, 1, Len(digits) - 1)) * 10
         + (digits[Len(digits)] - Digit0)

\* A number written into a template string, in decimal.
RECURSIVE NumberToString(_)
NumberToString(n) ==
  IF n < 10 THEN <<Digit0 + n>>
  ELSE NumberToString(n \div 10) \o <<Digit0 + (n % 10)>>

\* The loop of columnLettersToIndex (sheets.ts:285-292).
RECURSIVE Accumulate(_)
Accumulate(letters) ==
  IF letters = <<>> THEN 0
  ELSE Accumulate(SubSeq(letters, 1, Len(letters) - 1)) * 26
         + (letters[Len(letters)] - 64)

\* Mutant of columnLettersToIndex: the letters count as base-26 digits 0-25.
columnLettersToIndexBase26(letters) ==
  IF \E k \in DOMAIN letters : ~IsUpper(letters[k])
    THEN Threw("Coluna invalida")
    ELSE Returned(Accumulate([k \in DOMAIN letters |-> letters[k] - 1]))

\* GoogleSheetsApi.columnLettersToIndex (sheets.ts:284-294).
columnLettersToIndex(letters) ==
  IF \E k \in DOMAIN letters : ~IsUpper(letters[k])
    THEN Threw("Coluna invalida")
    ELSE Returned(Accumulate(letters) - 1)

\* /^([A-Za-z]+)(\d+)$/.exec(cellRef): the letters and the digits, or no
\* match (sheets.ts:243).
NoMatch == [ok |-> FALSE, letters |-> <<>>, digits |-> <<>>]
Exec(cellRef) ==
  LET others_ == { k \in DOMAIN cellRef : ~IsLetter(cellRef[k]) }
      n == IF others_ = {} THEN Len(cellRef) ELSE Min(others_) - 1
  IN IF n >= 1 /\ n < Len(cellRef)
          /\ \A k \in (n + 1)..Len(cellRef) : IsDigit(cellRef[k])
       THEN [ok |-> TRUE, letters |-> SubSeq(cellRef, 1, n),
             digits |-> SubSeq(cellRef, n + 1, Len(cellRef))]
       ELSE NoMatch

\* The default address and the split at the first "!" (sheets.ts:220-233):
\* whether a "!" was found, the sheet name and the cell reference.
DefaultRange == <<UpperA, 49>>
SplitRange(inputRange) ==
  LET normalized == Trim(IF inputRange = <<>> THEN DefaultRange ELSE inputRange)
      bangIdx == IndexOf(normalized, Bang)
      before == Trim(SubSeq(normalized, 1, bangIdx - 1))
      quoted == Len(before) >= 1 /\ before[1] = Quote
                  /\ before[Len(before)] = Quote
  IN IF bangIdx = NotFound
       THEN [bang |-> FALSE, sheetName |-> <<>>, cellRef |-> normalized]
       ELSE [bang |-> TRUE,
             sheetName |-> IF quoted THEN SubSeq(before, 2, Len(before) - 1)
                                     ELSE before,
             cellRef |-> Trim(SubSeq(normalized, bangIdx + 1, Len(normalized)))]

\* Array.prototype.find on the titles; 0 when no sheet has the title.
Find(sheets, sheetName) ==
  LET at == { k \in DOMAIN sheets : sheets[k].title = sheetName }
  IN IF at = {} THEN NotFound ELSE Min(at)

\* Truthiness of sheetName (null and "" are falsy).
Truthy(r) == r.bang /\ r.sheetName # <<>>

\* The sheet the address targets (sheets.ts:235-237).
SheetIndex(sheets, r) ==
  IF Truthy(r) THEN Find(sheets, r.sheetName) ELSE 1

Target(sheetId, rowIndex, colIndex, a1) ==
  [sheetId |-> sheetId,
   startRowIndex |-> rowIndex, endRowIndex |-> rowIndex + 1,
   startColumnIndex |-> colIndex, endColumnIndex |-> colIndex + 1,
   a1 |-> a1]

\* Mutant of RowAllowed: row 0 is let through.
RowAllowedZero(rowNumber) == rowNumber >= 0

\* The row test of resolveA1Target (sheets.ts:251).
RowAllowed(rowNumber) == rowNumber > 0

\* Mutant of RowIndex: the row number is taken for the index.
RowIndexOneBased(rowNumber) == rowNumber

\* sheets.ts:258.
RowIndex(rowNumber) == rowNumber - 1

\* GoogleSheetsApi.resolveA1Target (sheets.ts:211-269).
resolveA1Target(spreadsheet, inputRange) ==
  LET sheets == spreadsheet.list
      r == SplitRange(inputRange)
      at == SheetIndex(sheets, r)
      sheetId == IF at = NotFound THEN Absent ELSE sheets[at].sheetId
      m == Exec(r.cellRef)
      colLetters == ToUpperCase(m.letters)
      rowNumber == ParseInt(m.digits)
      col == columnLettersToIndex(colLetters)
  IN IF spreadsheet.kind = "object" \/ Len(sheets) = 0
       THEN Threw("Planilha nao possui abas (sheets) para atualizar.")
     ELSE IF ~IsNumber(sheetId)
       THEN Threw("Nao foi possivel identificar o sheetId da aba alvo.")
     ELSE IF ~m.ok
       THEN Threw("Range invalido")
     ELSE IF ~RowAllowed(rowNumber)
       THEN Threw("Linha invalida em range")
     ELSE IF col.state = "threw"
       THEN col
     ELSE Returned(Target(sheetId, RowIndex(rowNumber), col.value,
            (IF Truthy(r) THEN r.sheetName \o <<Bang>> ELSE <<>>)
              \o colLetters \o NumberToString(rowNumber)))

\* Mutant of UpdateCells: the text is written as a formula.
UpdateCellsFormula(target, data) ==
  [type |-> "updateCells",
   range |-> [sheetId |-> target.sheetId,
              startRowIndex |-> target.startRowIndex,
              endRowIndex |-> target.endRowIndex,
              startColumnIndex |-> target.startColumnIndex,
              endColumnIndex |-> target.endColumnIndex],
   rows |-> <<[values |-> <<[userEnteredValue |-> [formulaValue |-> data]]>>]>>,
   fields |-> "userEnteredValue"]

\* The request of GoogleSheetsApi.updateById (sheets.ts:98-117).
UpdateCells(target, data) ==
  [type |-> "updateCells",
   range |-> [sheetId |-> target.sheetId,
              startRowIndex |-> target.startRowIndex,
              endRowIndex |-> target.endRowIndex,
              startColumnIndex |-> target.startColumnIndex,
              endColumnIndex |-> target.endColumnIndex],
   rows |-> <<[values |-> <<[userEnteredValue |-> [stringValue |-> data]]>>]>>,
   fields |-> "userEnteredValue"]

\* encodeURIComponent of a path parameter, kept as a tagged value.
EncodeURIComponent(str) == <<"uri", str>>

\* Mutant of ValuesBody: the matrix is sent column-major.
ValuesBodyColumns(values) ==
  [t |-> "object", values |-> values, majorDimension |-> "COLUMNS"]

\* The body of GoogleSheetsApi.valuesUpdate (sheets.ts:165).
ValuesBody(values) ==
  [t |-> "object", values |-> values, majorDimension |-> "ROWS"]

\* The function under evaluation returns or throws.
Resolve ==
  /\ args.fn = "resolveA1Target" /\ ret = NoRet
  /\ ret' = resolveA1Target(args.spreadsheet, args.inputRange)
  /\ UNCHANGED <<apiVars, docsVars, args, utilsVars, cmdVars>>

\* resolveA1Target is applied to the normalized address of the target it
\* returned, on the same spreadsheet.
ResolveAgain ==
  /\ args.fn = "resolveA1Target" /\ ret.state = "returned"
  /\ args' = [args EXCEPT !.fn = "resolveA1Target.a1",
                          !.inputRange = ret.value.a1]
  /\ ret' = resolveA1Target(args.spreadsheet, ret.value.a1)
  /\ UNCHANGED <<apiVars, docsVars, utilsVars, cmdVars>>

Convert ==
  /\ args.fn = "columnLettersToIndex" /\ ret = NoRet
  /\ ret' = columnLettersToIndex(args.letters)
  /\ UNCHANGED <<apiVars, docsVars, args, utilsVars, cmdVars>>

\* -------------------------------------------------------------- responses
Settle(p, state, out) ==
  /\ pc' = [pc EXCEPT ![p] = state]
  /\ outcome' = [outcome EXCEPT ![p] = out]
  /\ UNCHANGED <<cur, now, seen, calls>>

\* Mutant of ApiError: the response text is not read.
ApiErrorNoText(r) ==
  [kind |-> "error", msg |-> "Google API erro", status |-> r.status,
   text |-> "", doc |-> NoDoc]

\* The error request throws on a non-success answer (google.ts:208-211).
ApiError(r) ==
  [kind |-> "error", msg |-> "Google API erro", status |-> r.status,
   text |-> r.text, doc |-> NoDoc]

\* The API answers caller p (google.ts:208-215); when the call was the
\* getById of updateById, the rest of updateById runs up to the fetch of its
\* post (docs.ts:77-115).
Respond(p, r) ==
  LET c == cur[p]
  IN /\ pc[p] = "api"
     /\ resps' = [resps EXCEPT ![p] = Append(@, [status |-> r.status,
                                                 text |-> r.text,
                                                 token |-> NoToken,
                                                 expires_in |-> Absent,
                                                 doc |-> r.doc])]
     /\ IF ~Ok(r.status)
          THEN Settle(p, "failed", ApiError(r))
          ELSE IF c.method = "DELETE"
            THEN Settle(p, "done", [NoOutcome EXCEPT !.kind = "undefined"])
          ELSE IF ~r.json
            THEN Settle(p, "failed",
                   [kind |-> "error", msg |-> "SyntaxError", status |-> 0,
                    text |-> "", doc |-> NoDoc])
          ELSE IF c.op = "updateById" /\ c.req = 1
            THEN /\ Enter(p, [c EXCEPT !.req = 2, !.method = "POST",
                               !.path = "documents.batchUpdate", !.doc = r.doc,
                               !.body = [t |-> "object",
                                         requests |-> Requests(r.doc, c.text)]])
                 /\ UNCHANGED outcome
          ELSE IF c.op = "sheets.updateById" /\ c.req = 1
            THEN LET target == resolveA1Target(r.doc, c.range)
                 IN IF target.state = "threw"
                      THEN Settle(p, "failed",
                             [kind |-> "error", msg |-> target.msg,
                              status |-> 0, text |-> "", doc |-> NoDoc])
                      ELSE /\ Enter(p, [c EXCEPT !.req = 2, !.method = "POST",
                                  !.path = "spreadsheets.batchUpdate",
                                  !.doc = r.doc,
                                  !.body = [t |-> "object", requests |->
                                    <<UpdateCells(target.value, c.text)>>]])
                           /\ UNCHANGED outcome
          ELSE Settle(p, "done",
                 [kind |-> "json", msg |-> "", status |-> r.status,
                  text |-> r.text, doc |-> r.doc])
     /\ UNCHANGED <<clock, ticks, creds, inst, accessToken,
                    accessTokenExpiresAtMs, issued, returns, others>>

\* The API answers caller p and the remote document is not touched.
ApiDone(p, r) == Respond(p, r) /\ UNCHANGED docsVars

\* GoogleSheetsApi.updateById up to its first suspension: getById
\* (sheets.ts:89-94).
SheetsUpdateById(p, i, data, range) ==
  /\ MayStart(p)
  /\ inst[i] = "ready"
  /\ Enter(p, [op |-> "sheets.updateById", inst |-> i, req |-> 1,
               method |-> "GET", path |-> "spreadsheets.get",
               range |-> range, query |-> NoQuery, body |-> Undefined,
               text |-> data, doc |-> NoDoc])
  /\ UNCHANGED <<clock, ticks, creds, inst, accessToken, accessTokenExpiresAtMs,
                 issued, returns, resps, outcome, docsVars, others>>

\* GoogleSheetsApi.valuesUpdate up to its suspension: the put
\* (sheets.ts:155-168).
ValuesUpdate(p, i, rangeA1, values) ==
  /\ MayStart(p)
  /\ inst[i] = "ready"
  /\ Enter(p, [op |-> "valuesUpdate", inst |-> i, req |-> 1,
               method |-> "PUT", path |-> "spreadsheets.values.update",
               range |-> EncodeURIComponent(rangeA1),
               query |-> "valueInputOption=USER_ENTERED",
               body |-> ValuesBody(values), text |-> "", doc |-> NoDoc])
  /\ UNCHANGED <<clock, ticks, creds, inst, accessToken, accessTokenExpiresAtMs,
                 issued, returns, resps, outcome, docsVars, others>>

\* The caller's operation is over; the caller is free to call again.
Return(p) ==
  /\ pc[p] \in {"done", "failed"}
  /\ returns < MaxReturns
  /\ returns' = returns + 1
  /\ pc' = [pc EXCEPT ![p] = "idle"]
  /\ cur' = [cur EXCEPT ![p] = NoCur]
  /\ now' = [now EXCEPT ![p] = 0]
  /\ seen' = [seen EXCEPT ![p] = NoSeen]
  /\ calls' = [calls EXCEPT ![p] = <<>>]
  /\ resps' = [resps EXCEPT ![p] = <<>>]
  /\ outcome' = [outcome EXCEPT ![p] = NoOutcome]
  /\ UNCHANGED <<clock, ticks, creds, inst, accessToken,
                 accessTokenExpiresAtMs, issued, docsVars, others>>

\* ---------------------------------------------------------------- utils.ts
HourMs == 3600 * 1000

\* The cache test of getGoogleAccessToken (utils.ts:111).
CachedValid(token, expiry, nowMs) ==
  token # NoToken /\ expiry > nowMs + 5 * 60 * 1000

\* Whether getAccessTokenFromServiceAccount gets as far as its fetch: the
\* secret is there and parses, and it has a key to sign with and a
\* token_uri to fetch (utils.ts:18-33, 63-67, 78-87).
Signable(e, c) == e = "present" /\ c.private_key /\ c.token_uri

\* getGoogleAccessToken returns to its caller: the accessor was called for
\* itself, or gapiGet / gapiPost go on to fetch the API (utils.ts:131-142,
\* 157-169).
TokenReady(p, c, token) ==
  IF c.op = "getGoogleAccessToken"
    THEN /\ pc' = [pc EXCEPT ![p] = "done"]
         /\ outcome' = [outcome EXCEPT ![p] =
              [NoOutcome EXCEPT !.kind = "token", !.text = token]]
         /\ UNCHANGED calls
    ELSE /\ Fetch(p, c, token)
         /\ UNCHANGED outcome

\* getGoogleAccessToken up to its return or its suspension at the exchange
\* (utils.ts:107-116, 77-93); c.inst is the secret's place among creds.
GetToken(p, c) ==
  /\ cur' = [cur EXCEPT ![p] = c]
  /\ now' = [now EXCEPT ![p] = clock]
  /\ seen' = [seen EXCEPT ![p] = [token |-> cachedToken,
                                  expiresAtMs |-> tokenExpiry]]
  /\ IF CachedValid(cachedToken, tokenExpiry, clock)
       THEN TokenReady(p, c, cachedToken)
     ELSE IF ~Signable(env, creds[c.inst])
       THEN /\ pc' = [pc EXCEPT ![p] = "failed"]
            /\ outcome' = [outcome EXCEPT ![p] =
                 [NoOutcome EXCEPT !.kind = "error",
                    !.msg = IF env = "absent"
                              THEN "Service account nao configurado"
                            ELSE IF env = "malformed"
                              THEN "Service account credentials invalidas"
                              ELSE "TypeError"]]
            /\ UNCHANGED calls
       ELSE /\ pc' = [pc EXCEPT ![p] = "uexch"]
            /\ calls' = [calls EXCEPT ![p] = Append(@, ExchangeCall(c))]
            /\ UNCHANGED outcome

UtilsOp(op, method, path, body) ==
  [op |-> op, inst |-> 1, req |-> 1, method |-> method, path |-> path,
   range |-> NoRange, query |-> NoQuery, body |-> body, text |-> "",
   doc |-> NoDoc]

\* A call of getGoogleAccessToken.
GetGoogleAccessToken(p) ==
  /\ MayStart(p)
  /\ GetToken(p, UtilsOp("getGoogleAccessToken", "GET", "none", Undefined))
  /\ UNCHANGED <<clock, ticks, creds, inst, accessToken, accessTokenExpiresAtMs,
                 issued, returns, resps, docsVars, fnVars, utilsVars, cmdVars>>

\* utils.ts:117.
UtilsExpiry(nowMs) == nowMs + HourMs

\* The token endpoint answers getAccessTokenFromServiceAccount
\* (utils.ts:95-102), and getGoogleAccessToken stores the token
\* (utils.ts:116-119).
UtilsExchangeDone(p, r) ==
  LET c == cur[p]
      token == IF Ok(r.status) THEN issued + 1 ELSE NoToken
  IN /\ pc[p] = "uexch"
     /\ resps' = [resps EXCEPT ![p] = Append(@, [status |-> r.status,
                                                 text |-> r.text,
                                                 token |-> token,
                                                 expires_in |-> r.expires_in,
                                                 doc |-> NoDoc])]
     /\ issued' = IF Ok(r.status) THEN token ELSE issued
     /\ IF ~Ok(r.status)
          THEN /\ pc' = [pc EXCEPT ![p] = "failed"]
               /\ outcome' = [outcome EXCEPT ![p] =
                    [kind |-> "error", msg |-> "Erro ao obter access token",
                     status |-> r.status, text |-> r.text, doc |-> NoDoc]]
               /\ UNCHANGED <<utilsVars, calls>>
          ELSE /\ cachedToken' = token
               /\ tokenExpiry' = UtilsExpiry(now[p])
               /\ exchangedAt' = clock
               /\ TokenReady(p, c, token)
     /\ UNCHANGED <<clock, ticks, creds, inst, accessToken,
                    accessTokenExpiresAtMs, returns, cur, now, seen,
                    docsVars, fnVars, cmdVars>>

\* The clock moves on to where a token's hour is down to its last five
\* minutes.
LongTickMs == HourMs - 5 * 60 * 1000
LongTick ==
  /\ ticks < MaxTicks
  /\ ticks' = ticks + 1
  /\ clock' = clock + LongTickMs
  /\ UNCHANGED <<creds, inst, accessToken, accessTokenExpiresAtMs, issued,
                 returns, pc, cur, now, seen, calls, resps, outcome,
                 docsVars, others>>

\* ------------------------------------------------------- command handlers
\* What a handler is called with: an object, the object alone in an array,
\* nothing, an array holding the JSON text of an object or an array holding
\* a string that is no JSON; id is the required identifier (documentId,
\* sheetId, titulo) and content the content field, TRUE when truthy.
Shapes == {"object", "array1", "undefined", "string1", "badString1"}
Params ==
  { [shape |-> sh, id |-> i, content |-> c, range |-> r] :
      sh \in Shapes, i \in BOOLEAN, c \in BOOLEAN,
      r \in {<<>>, <<66, 50, Colon, UpperZ, 50>>} }

\* The handlers: how each unwraps params ("unwrap": a one-object array,
\* "json": JSON.parse of a string in an array, before its try block), whether
\* it reads params with ?., what it requires, the client it uses and the
\* operations it awaits in order.
Handlers ==
  { [name |-> "updateDocument.ts", parse |-> "unwrap", safe |-> TRUE,
     needsId |-> TRUE, needsContent |-> TRUE, client |-> "GoogleApi",
     steps |-> <<"drive.getById", "docs.updateById">>, mime |-> "any"],
    [name |-> "updateSpreadsheet.ts", parse |-> "unwrap", safe |-> TRUE,
     needsId |-> TRUE, needsContent |-> TRUE, client |-> "GoogleApi",
     steps |-> <<"drive.getById", "sheets.valuesUpdate">>, mime |-> SheetsMime],
    [name |-> "listFiles.ts", parse |-> "unwrap", safe |-> TRUE,
     needsId |-> FALSE, needsContent |-> FALSE, client |-> "GoogleApi",
     steps |-> <<"drive.getAll">>, mime |-> "any"],
    [name |-> "atualizarDocumento.ts", parse |-> "unwrap", safe |-> FALSE,
     needsId |-> TRUE, needsContent |-> TRUE, client |-> "utils",
     steps |-> <<"gapiPost">>, mime |-> "any"],
    [name |-> "lerDocumento.ts", parse |-> "none", safe |-> FALSE,
     needsId |-> TRUE, needsContent |-> FALSE, client |-> "utils",
     steps |-> <<"gapiGet">>, mime |-> "any"],
    [name |-> "criarDocumento", parse |-> "json", safe |-> FALSE,
     needsId |-> TRUE, needsContent |-> FALSE, client |-> "utils",
     steps |-> <<"gapiPost">>, mime |-> "any"] }

Handler(name) == CHOOSE h \in Handlers : h.name = name

\* params once the handler has unwrapped it.
Unwrapped(h, prm) ==
  IF h.parse = "unwrap" /\ prm.shape = "array1" THEN "object"
  ELSE IF h.parse = "json" /\ prm.shape = "string1" THEN "object"
  ELSE IF prm.shape \in {"array1", "string1", "badString1"} THEN "array"
  ELSE prm.shape

\* JSON.parse throws before the try block is entered (part_003:9-11).
Escapes(h, prm) == h.parse = "json" /\ prm.shape = "badString1"

\* parseCsv of the content, kept as a tagged value.
ParseCsv(content) == <<"csv", content>>

\* The request an awaited operation of a handler starts with.
StepOp(step, prm) ==
  [op |-> IF step = "docs.updateById" THEN "updateById"
          ELSE IF step = "sheets.valuesUpdate" THEN "valuesUpdate" ELSE step,
   inst |-> 1, req |-> 1,
   method |-> IF step = "gapiPost" THEN "POST"
              ELSE IF step = "sheets.valuesUpdate" THEN "PUT" ELSE "GET",
   path |-> IF step = "drive.getById" THEN "drive.files.get"
            ELSE IF step = "drive.getAll" THEN "drive.files.list"
            ELSE IF step = "docs.updateById" THEN "documents.get"
            ELSE IF step = "sheets.valuesUpdate"
              THEN "spreadsheets.values.update"
            ELSE IF step = "gapiPost" THEN "documents.batchUpdate"
            ELSE "documents.get.raw",
   range |-> IF step = "sheets.valuesUpdate"
               THEN EncodeURIComponent(IF prm.range = <<>> THEN DefaultRange
                                                           ELSE prm.range)
               ELSE NoRange,
   query |-> IF step = "sheets.valuesUpdate"
               THEN "valueInputOption=USER_ENTERED"
             ELSE IF step \in {"drive.getById", "drive.getAll"} THEN "fields"
             ELSE NoQuery,
   body |-> IF step = "sheets.valuesUpdate" THEN ValuesBody(ParseCsv("content"))
            ELSE IF step = "gapiPost" THEN Obj ELSE Undefined,
   text |-> IF step = "docs.updateById" THEN "new" ELSE "",
   doc |-> NoDoc]

\* The handler writes its result and returns.
Finish(ok, msg) ==
  /\ cmd' = [cmd EXCEPT !.stage = "returned"]
  /\ results' = Append(results, [ok |-> ok, msg |-> msg])
  /\ UNCHANGED <<pc, cur, now, seen, calls, outcome>>

\* The handler calls its k-th operation and waits for it.
Start(h, prm, k) ==
  /\ cmd' = [handler |-> h.name, params |-> prm, stage |-> "running",
             step |-> k]
  /\ UNCHANGED results
  /\ IF h.client = "GoogleApi"
       THEN Enter(1, StepOp(h.steps[k], prm)) /\ UNCHANGED outcome
       ELSE GetToken(1, StepOp(h.steps[k], prm))

\* A handler is called and runs up to its return or its first await.
Invoke(h, prm) ==
  /\ cmd.stage = "none" /\ MayStart(1)
  /\ LET shape == Unwrapped(h, prm)
         called == [handler |-> h.name, params |-> prm, stage |-> "none",
                    step |-> 0]
         Fail(msg) ==
           /\ cmd' = [called EXCEPT !.stage = "returned"]
           /\ results' = Append(results, [ok |-> FALSE, msg |-> msg])
           /\ UNCHANGED <<pc, cur, now, seen, calls, outcome>>
     IN IF Escapes(h, prm)
          THEN /\ cmd' = [called EXCEPT !.stage = "escaped"]
               /\ UNCHANGED <<results, pc, cur, now, seen, calls, outcome>>
        ELSE IF shape = "undefined" /\ ~h.safe
          THEN Fail("TypeError")
        ELSE IF h.needsId /\ ~(shape = "object" /\ prm.id)
          THEN Fail("id e obrigatorio")
        ELSE IF h.needsContent /\ ~(shape = "object" /\ prm.content)
          THEN Fail("content e obrigatorio")
        ELSE IF h.client = "GoogleApi" /\ env = "absent"
          THEN Fail("credencial e obrigatorio")
        ELSE IF h.client = "GoogleApi" /\ env = "malformed"
          THEN Fail("Service account credentials invalidas")
        ELSE IF h.client = "GoogleApi" /\ Constructor(creds[1]) = "threw"
          THEN Fail("Service account invalido")
        ELSE Start(h, prm, 1)
  /\ UNCHANGED <<clock, ticks, creds, inst, accessToken, accessTokenExpiresAtMs,
                 issued, returns, resps, docsVars, fnVars, utilsVars, env>>

\* Mutant of MimeAccepted: the type of the file is not looked at.
MimeAcceptedAny(h, meta) == TRUE

\* The test of the file type (updateSpreadsheet.ts:60); the other handlers
\* take any type.
MimeAccepted(h, meta) == h.mime = "any" \/ meta.mimeType = h.mime

\* The awaited operation is over and the handler goes on: into its catch
\* block, through its checks of the file metadata, to its next operation or
\* to its result.
Resume ==
  /\ cmd.stage = "running" /\ pc[1] \in {"done", "failed"}
  /\ LET h == Handler(cmd.handler)
         k == cmd.step
     IN IF pc[1] = "failed"
          THEN Finish(FALSE, outcome[1].msg)
        ELSE IF h.steps[k] = "drive.getById" /\ outcome[1].doc.mimeType = ""
          THEN Finish(FALSE, "nao foi possivel identificar o arquivo informado")
        ELSE IF h.steps[k] = "drive.getById" /\ ~MimeAccepted(h, outcome[1].doc)
          THEN Finish(FALSE, "o arquivo informado nao e uma planilha")
        ELSE IF k < Len(h.steps)
          THEN Start(h, cmd.params, k + 1)
          ELSE Finish(TRUE, "")
  /\ UNCHANGED <<clock, ticks, creds, inst, accessToken, accessTokenExpiresAtMs,
                 issued, returns, resps, docsVars, fnVars, utilsVars, env>>

\* ---------------------------------------------------------- specifications
\* Spec: one caller issuing one operation after the other, over every
\* method, body argument, credential and response.
Next ==
  \/ \E i \in Inst, m \in Methods, b \in BodyArgs : Request(1, i, m, b)
  \/ \E i \in Inst, t \in Texts : UpdateById(1, i, t)
  \/ \E r \in ExchResps : ExchangeDone(1, r)
  \/ \E r \in ApiResps(cur[1].path) : ApiDone(1, r)
  \/ Return(1)
  \/ Tick

Spec == Init /\ [][Next]_vars

\* SpecConc: all callers running concurrently on valid instances.
ValidCreds == [client_email |-> TRUE, private_key |-> TRUE, token_uri |-> TRUE]

InitConc == Init /\ creds = [i \in Inst |-> ValidCreds]

ConcResps(path) == { r \in ApiResps(path) : r.status \in {200, 404} }

NextConc ==
  \/ \E p \in Procs, i \in Inst : Request(p, i, "GET", Undefined)
  \/ \E p \in Procs, r \in ExchResps : ExchangeDone(p, r)
  \/ \E p \in Procs : \E r \in ConcResps(cur[p].path) : ApiDone(p, r)
  \/ Tick

SpecConc == InitConc /\ [][NextConc]_vars

\* ---------------------------------------------------- the remote document
\* The structure GET /v1/documents/{id} returns for a body: the last block
\* ends one past the last character (endIndex = body length + 1).
Structure(body) ==
  [hasBody |-> TRUE, content |-> <<[endIndex |-> Len(body) + 1]>>]

\* One request of a batch applied to a body by the Docs API. A deletion must
\* be a non-empty range of existing characters that spares the final
\* newline; an insertion must fall inside the body and carry some text.
Rejected == <<>>

ApplyRequest(body, q) ==
  IF body = Rejected THEN Rejected
  ELSE IF q.type = "deleteContentRange"
    THEN IF 1 <= q.startIndex /\ q.startIndex < q.endIndex
              /\ q.endIndex <= Len(body)
           THEN SubSeq(body, 1, q.startIndex - 1)
                  \o SubSeq(body, q.endIndex, Len(body))
           ELSE Rejected
  ELSE IF 1 <= q.index /\ q.index <= Len(body) /\ q.text # <<>>
    THEN SubSeq(body, 1, q.index - 1) \o q.text
           \o SubSeq(body, q.index, Len(body))
    ELSE Rejected

\* A batch is applied in order and as a whole.
RECURSIVE ApplyBatch(_, _)
ApplyBatch(body, reqs) ==
  IF reqs = <<>> THEN body
  ELSE ApplyBatch(ApplyRequest(body, Head(reqs)), Tail(reqs))

Event(kind, p, text, body) ==
  [kind |-> kind, by |-> p, text |-> text, body |-> body]

\* The Docs API answers the pending call of caller p from the remote
\* document: documents.get with its structure, documents.batchUpdate by
\* applying the batch or refusing it with status 400.
Serve(p) ==
  /\ pc[p] = "api"
  /\ LET call == calls[p][Len(calls[p])]
     IN IF call.path = "documents.get"
          THEN /\ Respond(p, [status |-> 200, text |-> "doc", json |-> TRUE,
                              doc |-> Structure(remote)])
               /\ remote' = remote
               /\ history' = Append(history, Event("read", p, <<>>, remote))
          ELSE LET after == ApplyBatch(remote, call.body[2].requests)
               IN IF after = Rejected
                    THEN /\ Respond(p, [status |-> 400, text |-> "invalid range",
                                        json |-> FALSE, doc |-> NoDoc])
                         /\ UNCHANGED docsVars
                    ELSE /\ Respond(p, [status |-> 200, text |-> "{}",
                                        json |-> TRUE, doc |-> NoDoc])
                         /\ remote' = after
                         /\ history' = Append(history,
                              Event("write", p, cur[p].text, after))

Edits == Cardinality({ k \in DOMAIN history : history[k].kind = "edit" })

\* Another writer changes the remote document.
Edit ==
  /\ Edits < MaxEdits
  /\ \E b \in RemoteBodies \ {remote} :
       /\ remote' = b
       /\ history' = Append(history, Event("edit", 0, <<>>, b))
  /\ UNCHANGED <<apiVars, others>>

\* SpecDocs: one caller replacing the body of one remote document, one call
\* after the other, while another writer may change it.
InitDocsAny ==
  /\ InitApi /\ creds = [i \in Inst |-> ValidCreds]
  /\ remote \in RemoteBodies /\ history = <<>>
  /\ InitFn /\ InitUtils /\ InitCmd

Unavailable == { r \in ApiResps("any") : r.status = 404 }

NextDocs ==
  \/ \E t \in DocTexts : UpdateById(1, 1, t)
  \/ \E r \in ExchResps : ExchangeDone(1, r)
  \/ Serve(1)
  \/ \E r \in Unavailable : ApiDone(1, r)
  \/ Return(1)
  \/ Edit

SpecDocs == InitDocsAny /\ [][NextDocs]_vars

\* ------------------------------------------------------------------ claims

\* C1: a getAccessToken call returns the cached token and issues no exchange
\* exactly when the cache it read holds a token and now + 5 minutes is before
\* the cached expiry; in every other case it issues exactly one exchange.
C1_HitIffValid ==
  \A p \in Procs : pc[p] # "idle" =>
    LET valid == seen[p].token # NoToken
                 /\ now[p] + 5 * 60 * 1000 < seen[p].expiresAtMs
        mine == { k \in DOMAIN calls[p] : calls[p][k].req = cur[p].req }
        exch == { k \in mine : calls[p][k].kind = "exchange" }
        api == { k \in mine : calls[p][k].kind = "api" }
    IN /\ valid => exch = {} /\ \A k \in api : calls[p][k].auth = seen[p].token
       /\ ~valid => Cardinality(exch) = 1

\* A second operation, started after the clock advanced, is served from the
\* cache: its API call is its only call and carries the cached token.
C1_Witness ==
  \E p \in Procs :
    /\ returns = 1 /\ clock > 0 /\ now[p] = clock
    /\ pc[p] = "api" /\ cur[p].req = 1
    /\ seen[p].token # NoToken
    /\ Len(calls[p]) = 1 /\ calls[p][1].auth = seen[p].token

\* C2: a non-success answer to the exchange or to an API call is the last
\* thing its operation sees: no call follows it and the operation has failed
\* with an error for that answer.
C2_NoRetry ==
  \A p \in Procs : \A k \in DOMAIN resps[p] :
    ~(resps[p][k].status \in 200..299) =>
      /\ k = Len(resps[p])
      /\ Len(calls[p]) = k
      /\ pc[p] = "failed"
      /\ outcome[p].kind = "error"
      /\ outcome[p].status = resps[p][k].status

\* updateById whose structure fetch was refused: no batch update follows.
C2_Witness ==
  \E p \in Procs :
    /\ cur[p].op = "updateById" /\ pc[p] = "failed"
    /\ Len(calls[p]) = 2 /\ calls[p][2].path = "documents.get"
    /\ resps[p][2].status = 404

\* C3: a credential lacking client_email, private_key or token_uri yields no
\* usable client and no network call at all, and a non-success answer of the
\* exchange endpoint makes getAccessToken fail with the token error.
C3_AuthError ==
  /\ \A i \in Inst :
       ~(creds[i].client_email /\ creds[i].private_key /\ creds[i].token_uri) =>
         /\ inst[i] = "threw"
         /\ \A p \in Procs : \A k \in DOMAIN calls[p] : calls[p][k].inst # i
  /\ \A p \in Procs : \A k \in DOMAIN resps[p] :
       (calls[p][k].kind = "exchange" /\ ~(resps[p][k].status \in 200..299)) =>
         /\ pc[p] = "failed"
         /\ outcome[p].msg = "Erro ao obter access token"
         /\ outcome[p].status = resps[p][k].status

\* One client was refused by the constructor, the other one's exchange was
\* refused by the endpoint.
C3_Witness ==
  /\ \E i \in Inst : inst[i] = "threw" /\ ~creds[i].token_uri
  /\ \E p \in Procs :
       /\ pc[p] = "failed" /\ outcome[p].msg = "Erro ao obter access token"
       /\ inst[cur[p].inst] = "ready"

C5_ApiError ==
  \A p \in Procs :
    /\ \A k \in DOMAIN resps[p] :
         (calls[p][k].kind = "api" /\ ~(resps[p][k].status \in 200..299)) =>
           /\ pc[p] = "failed"
           /\ outcome[p].kind = "error"
           /\ outcome[p].msg = "Google API erro"
           /\ outcome[p].status = resps[p][k].status
           /\ outcome[p].text = resps[p][k].text
    /\ pc[p] = "done" =>
         /\ resps[p] # <<>>
         /\ resps[p][Len(resps[p])].status \in 200..299
         /\ outcome[p].kind \in {"json", "undefined"}

\* A request refused with 404 and a response text.
C5_Witness ==
  \E p \in Procs :
    /\ pc[p] = "failed" /\ outcome[p].status = 404
    /\ outcome[p].text = "not found" /\ cur[p].op = "request"

\* C6: every API call has the bearer token; Content-Type and a body come
\* together, only on POST, PUT and PATCH and there exactly when a body
\* argument was given; GET and DELETE never carry a body.
C6_Headers ==
  \A p \in Procs : \A k \in DOMAIN calls[p] :
    LET c == calls[p][k]
    IN c.kind = "api" =>
         /\ c.auth # NoToken
         /\ c.ctype <=> c.body # <<>>
         /\ c.ctype => c.method \in {"POST", "PUT", "PATCH"}
         /\ c.method \in {"GET", "DELETE"} => c.body = <<>>
         /\ (k = Len(calls[p]) /\ c.method \in {"POST", "PUT", "PATCH"}) =>
              (c.ctype <=> cur[p].body.t # "undefined")

\* A DELETE that was given a body argument and sent none.
C6_Witness ==
  \E p \in Procs :
    /\ pc[p] = "api" /\ cur[p].method = "DELETE" /\ cur[p].body.t = "object"
    /\ calls[p][Len(calls[p])].body = <<>>
    /\ ~calls[p][Len(calls[p])].ctype

\* C7: concurrent getAccessToken calls are not coalesced: every caller
\* waiting for a token has its own exchange in flight and can take its
\* answer whatever the other callers do, a caller whose
\* exchange succeeded goes on with the token of that very exchange, which no
\* other exchange returned, and a caller fails only on its own answer.
C7_NotCoalesced ==
  \A p \in Procs :
    /\ pc[p] = "exch" =>
         /\ calls[p] # <<>>
         /\ calls[p][Len(calls[p])].kind = "exchange"
         /\ Len(resps[p]) = Len(calls[p]) - 1
         /\ ENABLED (\E r \in ExchResps : ExchangeDone(p, r))
    /\ \A k \in DOMAIN resps[p] :
         (calls[p][k].kind = "exchange" /\ resps[p][k].status \in 200..299) =>
           /\ Len(calls[p]) > k
           /\ calls[p][k + 1].kind = "api"
           /\ calls[p][k + 1].auth = resps[p][k].token
           /\ \A q \in Procs \ {p} : \A j \in DOMAIN resps[q] :
                resps[q][j].token # resps[p][k].token
    /\ pc[p] = "failed" => ~(resps[p][Len(resps[p])].status \in 200..299)

\* Two callers of one instance that both missed the cache at the same
\* instant and both went on, each with the token of its own exchange.
C7_Witness ==
  \E p, q \in Procs :
    /\ p # q /\ cur[p].inst = cur[q].inst /\ now[p] = now[q]
    /\ seen[p].token = NoToken /\ seen[q].token = NoToken
    /\ pc[p] = "api" /\ pc[q] = "api"
    /\ calls[p][2].auth = resps[p][1].token
    /\ calls[q][2].auth = resps[q][1].token
    /\ calls[p][2].auth # calls[q][2].auth

\* C8: the cache of an instance changes only when an exchange of a caller of
\* that instance completes, and a call on an instance on which no exchange
\* has succeeded yet always performs an exchange.
C8_Isolation ==
  [][ /\ \A i \in Inst :
           (accessToken'[i] # accessToken[i]
            \/ accessTokenExpiresAtMs'[i] # accessTokenExpiresAtMs[i]) =>
             \E p \in Procs :
               cur[p].inst = i /\ pc[p] = "exch" /\ pc'[p] = "api"
      /\ \A p \in Procs :
           (/\ pc[p] = "idle" /\ pc'[p] # "idle"
            /\ ~ \E q \in Procs : \E k \in DOMAIN resps[q] :
                   /\ calls[q][k].kind = "exchange"
                   /\ calls[q][k].inst = cur'[p].inst
                   /\ resps[q][k].status \in 200..299) =>
             pc'[p] = "exch"
    ]_vars

\* One instance has a cached token from a finished call; a later caller of
\* the other instance found no token there and is exchanging.
C8_Witness ==
  \E p, q \in Procs :
    /\ cur[q].inst # cur[p].inst /\ cur[q].inst \in Inst /\ cur[p].inst \in Inst
    /\ accessToken[cur[q].inst] # NoToken /\ pc[q] = "done"
    /\ accessToken[cur[p].inst] = NoToken /\ pc[p] = "exch"
    /\ seen[p].token = NoToken /\ now[p] > now[q]

\* C9: with e the numeric endIndex of the last body block, or 1 without
\* one, the batch of a full-body replace holds a delete request exactly when
\* max(1, e - 1) exceeds 1, that request covers [1, e - 1), and for e = 1 the
\* batch is the insert alone.
C9_DeleteRange ==
  \A p \in Procs :
    (cur[p].op = "updateById" /\ cur[p].req = 2) =>
      LET content == IF cur[p].doc.hasBody THEN cur[p].doc.content ELSE <<>>
          e == IF content # <<>> /\ content[Len(content)].endIndex >= 0
                 THEN content[Len(content)].endIndex ELSE 1
          bound == IF e - 1 > 1 THEN e - 1 ELSE 1
          reqs == cur[p].body.requests
          dels == { k \in DOMAIN reqs : reqs[k].type = "deleteContentRange" }
      IN /\ bound > 1 <=> dels # {}
         /\ \A k \in dels : reqs[k].startIndex = 1 /\ reqs[k].endIndex = e - 1
         /\ e = 1 => Len(reqs) = 1 /\ reqs[1].type = "insertText"
         /\ \A k \in DOMAIN calls[p] :
              calls[p][k].path = "documents.batchUpdate" =>
                calls[p][k].body = <<"json", cur[p].body>>

\* The fetched document ends at 42 and the batch update deleting [1, 41) has
\* been sent.
C9_Witness ==
  \E p \in Procs :
    /\ cur[p].op = "updateById" /\ cur[p].req = 2 /\ pc[p] = "api"
    /\ cur[p].doc.content # <<>>
    /\ cur[p].doc.content[Len(cur[p].doc.content)].endIndex = 42
    /\ cur[p].body.requests[1].type = "deleteContentRange"
    /\ cur[p].body.requests[1].startIndex = 1
    /\ cur[p].body.requests[1].endIndex = 41

\* C10 as stated: updateById fails with a StructureError and issues no batch
\* update when the fetched document has no body content or its last block
\* has no numeric endIndex.
C10_StructureError ==
  \A p \in Procs :
    (/\ cur[p].op = "updateById" /\ cur[p].req = 2
     /\ \/ ~cur[p].doc.hasBody
        \/ cur[p].doc.content = <<>>
        \/ cur[p].doc.content[Len(cur[p].doc.content)].endIndex < 0) =>
      /\ pc[p] = "failed"
      /\ outcome[p].msg = "StructureError"
      /\ \A k \in DOMAIN calls[p] : calls[p][k].path # "documents.batchUpdate"

\* C10 as amended: for such a document updateById raises no structure error;
\* it goes on to the batch update, whose request list is the insert of the
\* new text at index 1 alone.
C10_Fallback ==
  \A p \in Procs :
    (/\ cur[p].op = "updateById" /\ cur[p].req = 2
     /\ \/ ~cur[p].doc.hasBody
        \/ cur[p].doc.content = <<>>
        \/ cur[p].doc.content[Len(cur[p].doc.content)].endIndex < 0) =>
      /\ outcome[p].msg # "StructureError"
      /\ cur[p].path = "documents.batchUpdate"
      /\ cur[p].body.requests =
           << [type |-> "insertText", startIndex |-> 0, endIndex |-> 0,
               index |-> 1, text |-> cur[p].text] >>
      /\ pc[p] = "failed" => calls[p][Len(calls[p])].req = 2
      /\ \A k \in DOMAIN calls[p] :
           calls[p][k].path = "documents.batchUpdate" =>
             calls[p][k].body = <<"json", cur[p].body>>

\* The last block of the fetched document has no endIndex and the batch
\* update with the insert alone has been sent.
C10_Witness ==
  \E p \in Procs :
    /\ cur[p].op = "updateById" /\ cur[p].req = 2 /\ pc[p] = "api"
    /\ Len(cur[p].doc.content) = 2
    /\ cur[p].doc.content[2].endIndex < 0
    /\ calls[p][Len(calls[p])].path = "documents.batchUpdate"
    /\ Len(calls[p][Len(calls[p])].body[2].requests) = 1

\* extractPlainText of a document whose body is one run of text: the runs
\* are joined and each vertical tab becomes a newline.
VTab == "\\u000b"
PlainText(body) ==
  [k \in DOMAIN body |-> IF body[k] = VTab THEN Newline ELSE body[k]]

Occurrences(t, s) ==
  Cardinality({ k \in 1..(Len(s) - Len(t) + 1) : SubSeq(s, k, k + Len(t) - 1) = t })

\* Two calls of updateById in succession with the same text: each is a read
\* directly followed by its write, and nothing comes between the two.
Twice(k) ==
  /\ k + 3 <= Len(history)
  /\ history[k].kind = "read" /\ history[k + 1].kind = "write"
  /\ history[k + 2].kind = "read" /\ history[k + 3].kind = "write"
  /\ history[k + 3].text = history[k + 1].text

\* C11: after updateById is called twice in succession with the same text
\* and no other writer in between, the plain text of the document holds the
\* text exactly once and the body is the one the first call left.
C11_Idempotent ==
  \A k \in DOMAIN history :
    Twice(k) =>
      /\ history[k + 3].body = history[k + 1].body
      /\ Occurrences(history[k + 3].text, PlainText(history[k + 3].body)) = 1
      /\ PlainText(history[k + 3].body) = history[k + 3].text \o <<Newline>>

C11_Witness ==
  \E k \in DOMAIN history :
    /\ Twice(k)
    /\ history[k].body # EmptyBody
    /\ remote = history[k + 3].body
    /\ pc[1] = "done"

\* SpecA1: resolveA1Target on every spreadsheet structure and address.
InitQuiet ==
  /\ InitApi /\ creds = [i \in Inst |-> ValidCreds]
  /\ InitDocs /\ InitUtils /\ InitCmd

InitA1 ==
  /\ InitQuiet
  /\ args \in { [fn |-> "resolveA1Target", spreadsheet |-> ss, inputRange |-> a,
                  letters |-> <<>>] : ss \in Spreadsheets, a \in Addresses }
  /\ ret = NoRet

NextA1 == Resolve

SpecA1 == InitA1 /\ [][NextA1]_vars

\* SpecColumns: columnLettersToIndex on every column name.
InitColumns ==
  /\ InitQuiet
  /\ args \in { [fn |-> "columnLettersToIndex", spreadsheet |-> NoSheets,
                  inputRange |-> <<>>, letters |-> l] : l \in ColumnNames }
  /\ ret = NoRet

NextColumns == Convert

SpecColumns == InitColumns /\ [][NextColumns]_vars

RECURSIVE Pow(_, _)
Pow(b, e) == IF e = 0 THEN 1 ELSE b * Pow(b, e - 1)

RECURSIVE Sum(_, _)
Sum(f, n) == IF n = 0 THEN 0 ELSE f[n] + Sum(f, n - 1)

\* value(A) = 1 .. value(Z) = 26, in either case.
LetterValue(c) == IF IsLower(c) THEN c - 96 ELSE c - 64

\* toIndex as the specification writes it:
\* (sum of value(letter_i) * 26^(n-1-i)) - 1, i from 0 to n-1.
ToIndex(letters) ==
  LET n == Len(letters)
  IN Sum([k \in 1..n |-> LetterValue(letters[k]) * Pow(26, n - k)], n) - 1

\* The number a string of decimal digits writes.
Decimal(digits) ==
  LET n == Len(digits)
  IN Sum([k \in 1..n |-> (digits[k] - Digit0) * Pow(10, n - k)], n)

\* A cell reference of the form <letters><digits>: where the digits start.
Cut(cellRef) ==
  { n \in 1..(Len(cellRef) - 1) :
      /\ \A k \in 1..n : IsLetter(cellRef[k])
      /\ \A k \in (n + 1)..Len(cellRef) : IsDigit(cellRef[k]) }
WellFormed(cellRef) == Cut(cellRef) # {}
LettersOf(cellRef) == SubSeq(cellRef, 1, Min(Cut(cellRef)))
DigitsOf(cellRef) == SubSeq(cellRef, Min(Cut(cellRef)) + 1, Len(cellRef))

\* The address under resolution, split at its first "!".
Address == SplitRange(args.inputRange)
Resolved == args.fn = "resolveA1Target" /\ ret # NoRet
SheetErrors ==
  { "Planilha nao possui abas (sheets) para atualizar.",
    "Nao foi possivel identificar o sheetId da aba alvo." }

\* C12: for every address whose cell reference is <letters><digits> with
\* row number r >= 1, resolveA1Target returns rows [r - 1, r) and columns
\* [toIndex(letters), toIndex(letters) + 1), letters in either case, with the
\* numeric sheetId of a sheet of the structure; it returns no target only
\* when the sheet cannot be resolved.
C12_CellTarget ==
  (Resolved /\ WellFormed(Address.cellRef)
     /\ Decimal(DigitsOf(Address.cellRef)) >= 1) =>
    LET r == Decimal(DigitsOf(Address.cellRef))
        c == ToIndex(LettersOf(Address.cellRef))
        t == ret.value
    IN IF ret.state = "returned"
         THEN /\ t.startRowIndex = r - 1 /\ t.endRowIndex = r
              /\ t.startColumnIndex = c /\ t.endColumnIndex = c + 1
              /\ IsNumber(t.sheetId)
              /\ \E k \in DOMAIN args.spreadsheet.list :
                   args.spreadsheet.list[k].sheetId = t.sheetId
         ELSE ret.msg \in SheetErrors

\* "b2" on a single sheet: rows [1, 2) and columns [1, 2).
C12_Witness ==
  /\ Resolved /\ ret.state = "returned"
  /\ args.inputRange = <<98, 50>>
  /\ args.spreadsheet.list = <<Sheet(SheetS, 0)>>
  /\ ret.value.startRowIndex = 1 /\ ret.value.endRowIndex = 2
  /\ ret.value.startColumnIndex = 1 /\ ret.value.endColumnIndex = 2
  /\ ret.value.sheetId = 0

\* The sheets whose title is the given name.
Titled(name) ==
  { k \in DOMAIN args.spreadsheet.list : args.spreadsheet.list[k].title = name }

\* C13: when the address contains "!", the text before the first "!", a
\* pair of surrounding single quotes stripped, is the sheet name and the
\* target is the sheet whose title equals it; without "!" the target is the
\* first sheet. The first sheet never stands in for a named sheet.
C13_SheetSelection ==
  (Resolved /\ ret.state = "returned") =>
    IF Address.bang
      THEN /\ Titled(Address.sheetName) # {}
           /\ ret.value.sheetId =
                args.spreadsheet.list[Min(Titled(Address.sheetName))].sheetId
      ELSE ret.value.sheetId = args.spreadsheet.list[1].sheetId

\* C14: resolveA1Target throws, returning no target, whenever the structure
\* has no sheets (missing, not an array, empty) or the address names a sheet
\* whose name is the title of no sheet.
C14_SheetErrors ==
  (Resolved /\ (\/ args.spreadsheet.kind # "array"
                \/ args.spreadsheet.list = <<>>
                \/ Address.bang /\ Titled(Address.sheetName) = {})) =>
    ret.state = "threw"

\* C15: resolveA1Target throws for every cell reference that is not one or
\* more letters followed by one or more digits, ranges included, and for
\* every reference whose row number is 0.
C15_CellErrors ==
  (Resolved /\ (\/ ~WellFormed(Address.cellRef)
                \/ Decimal(DigitsOf(Address.cellRef)) < 1)) =>
    ret.state = "threw"

\* The range B2:Z2 on the first sheet is refused for its form.
C15_Witness ==
  /\ Resolved /\ ret.state = "threw" /\ ret.msg = "Range invalido"
  /\ args.inputRange = <<66, 50, Colon, UpperZ, 50>>
  /\ args.spreadsheet.list = <<Sheet(SheetS, 0)>>

\* The column name that follows in length-then-alphabetical order.
RECURSIVE Successor(_)
Successor(letters) ==
  LET n == Len(letters)
  IN IF n = 0 THEN <<UpperA>>
     ELSE IF letters[n] < UpperZ THEN [letters EXCEPT ![n] = @ + 1]
     ELSE Successor(SubSeq(letters, 1, n - 1)) \o <<UpperA>>

\* The number of column names of at most n letters.
Names(n) == Sum([k \in 1..n |-> Pow(26, k)], n)

\* C16: on the column names of 1 to MaxLetters letters A-Z,
\* columnLettersToIndex never throws, equals
\* (sum of value(letter_i) * 26^(n-1-i)) - 1, starts at A = 0, grows by one
\* from each name to the next in length-then-alphabetical order and stays
\* within 0..Names(MaxLetters) - 1 (18277 for three letters): a bijection.
C16_ColumnIndex ==
  (args.fn = "columnLettersToIndex" /\ ret # NoRet) =>
    /\ ret.state = "returned"
    /\ ret.value = ToIndex(args.letters)
    /\ ret.value >= 0 /\ ret.value <= Names(MaxLetters) - 1
    /\ (args.letters = <<UpperA>> => ret.value = 0)
    /\ (args.letters = <<UpperZ>> => ret.value = 25)
    /\ (args.letters = <<UpperA, UpperA>> => ret.value = 26)
    /\ (args.letters = <<UpperA, 66>> => ret.value = 27)
    /\ (args.letters = <<UpperA, UpperZ>> => ret.value = 51)
    /\ (args.letters = <<66, UpperA>> => ret.value = 52)
    /\ columnLettersToIndex(Successor(args.letters)) = Returned(ret.value + 1)

\* The last name of its length is reached.
C16_Witness ==
  /\ args.fn = "columnLettersToIndex" /\ ret.state = "returned"
  /\ args.letters = [k \in 1..MaxLetters |-> UpperZ]
  /\ ret.value = Names(MaxLetters) - 1

\* SpecSheets: one caller writing cells and value matrices, one operation
\* after the other.
InitSheets == InitQuiet /\ InitFn

NextSheets ==
  \/ \E d \in CellTexts, a \in CellAddresses : SheetsUpdateById(1, 1, d, a)
  \/ \E a \in CellAddresses, v \in Matrices : ValuesUpdate(1, 1, a, v)
  \/ \E r \in ExchResps : ExchangeDone(1, r)
  \/ \E r \in ApiResps(cur[1].path) : ApiDone(1, r)
  \/ Return(1)

SpecSheets == InitSheets /\ [][NextSheets]_vars

IsApi(call) == call.kind = "api"
ApiCalls(p) == SelectSeq(calls[p], IsApi)

\* The payload of the answer to the first API call of caller p, once there.
FirstApi(p) == Min({ k \in DOMAIN calls[p] : IsApi(calls[p][k]) })
Answered(p) == ApiCalls(p) # <<>> /\ Len(resps[p]) >= FirstApi(p)
Fetched(p) == resps[p][FirstApi(p)]

\* C17: GoogleSheetsApi.updateById first gets the spreadsheet, resolves the
\* cell target from what it got, and then posts one batch update holding a
\* single updateCells request that writes the text as a stringValue at that
\* target (sheet S alone, address A1: sheetId 0, row 0, column 0); when the
\* resolution fails there is no update request.
C17_WriteCell ==
  \A p \in Procs :
    cur[p].op = "sheets.updateById" =>
      LET api == ApiCalls(p)
          c == cur[p]
      IN /\ Len(api) <= 2
         /\ pc[p] = "done" => Len(api) = 2
         /\ Len(api) >= 1 =>
              api[1].method = "GET" /\ api[1].path = "spreadsheets.get"
         /\ Len(api) = 2 =>
              LET target == resolveA1Target(Fetched(p).doc, c.range)
                  q == api[2].body[2].requests[1]
              IN /\ Ok(Fetched(p).status)
                 /\ target.state = "returned"
                 /\ api[2].method = "POST"
                 /\ api[2].path = "spreadsheets.batchUpdate"
                 /\ Len(api[2].body[2].requests) = 1
                 /\ q.type = "updateCells"
                 /\ q.range.sheetId = target.value.sheetId
                 /\ q.range.startRowIndex = target.value.startRowIndex
                 /\ q.range.endRowIndex = target.value.endRowIndex
                 /\ q.range.startColumnIndex = target.value.startColumnIndex
                 /\ q.range.endColumnIndex = target.value.endColumnIndex
                 /\ q.rows = <<[values |-> <<[userEnteredValue |->
                                               [stringValue |-> c.text]]>>]>>
                 /\ (Fetched(p).doc.list = <<Sheet(SheetS, 0)>>
                       /\ c.range = <<UpperA, 49>> =>
                      /\ q.range.sheetId = 0
                      /\ q.range.startRowIndex = 0
                      /\ q.range.startColumnIndex = 0)
         /\ (Answered(p) /\ Fetched(p).status = 200
              /\ resolveA1Target(Fetched(p).doc, c.range).state = "threw") =>
              Len(api) = 1 /\ pc[p] = "failed"

\* "hello" written at A1 of the single sheet S, whose sheetId is 0.
C17_Witness ==
  /\ pc[1] = "done" /\ cur[1].op = "sheets.updateById"
  /\ cur[1].range = <<UpperA, 49>> /\ cur[1].text = "hello"
  /\ Fetched(1).doc.list = <<Sheet(SheetS, 0)>>
  /\ ApiCalls(1)[2].body[2].requests[1].range.sheetId = 0

\* C18: GoogleSheetsApi.valuesUpdate never gets the spreadsheet: its only
\* API call is the put of spreadsheets.values.update on the encoded range,
\* with valueInputOption USER_ENTERED and the matrix sent by rows; a range
\* that resolveA1Target refuses is sent like any other.
C18_WriteMatrix ==
  \A p \in Procs :
    cur[p].op = "valuesUpdate" =>
      LET api == ApiCalls(p)
      IN /\ Len(api) <= 1
         /\ pc[p] \in {"api", "done"} => Len(api) = 1
         /\ \A k \in DOMAIN api :
              /\ api[k].method = "PUT"
              /\ api[k].path = "spreadsheets.values.update"
              /\ api[k].path # "spreadsheets.get"
              /\ api[k].range[1] = "uri"
              /\ api[k].query = "valueInputOption=USER_ENTERED"
              /\ api[k].body[2].majorDimension = "ROWS"
              /\ api[k].body[2].values \in Matrices

\* The range B2:Z2, which resolveA1Target refuses, has been written.
C18_Witness ==
  /\ pc[1] = "done" /\ cur[1].op = "valuesUpdate"
  /\ ApiCalls(1)[1].range = <<"uri", <<66, 50, Colon, UpperZ, 50>>>>
  /\ resolveA1Target([kind |-> "array", list |-> <<Sheet(SheetS, 0)>>],
                      ApiCalls(1)[1].range[2]).state = "threw"

\* SpecCmd: one command handler is called, with any params, secret and
\* answers of the remote services.
InitCmdAny ==
  /\ InitApi /\ \A i \in Inst : i # 1 => creds[i] = ValidCreds
  /\ InitDocs /\ InitFn /\ InitUtils
  /\ env \in {"absent", "malformed", "present"}
  /\ env # "present" => creds[1] = ValidCreds
  /\ cmd = NoCmd /\ results = <<>>

NextCmd ==
  \/ \E h \in Handlers, prm \in Params : Invoke(h, prm)
  \/ Resume
  \/ \E r \in ExchResps : ExchangeDone(1, r)
  \/ \E r \in ExchResps : UtilsExchangeDone(1, r)
  \/ \E r \in ApiResps(cur[1].path) : ApiDone(1, r)

SpecCmd == InitCmdAny /\ [][NextCmd]_vars

\* C19: every command handler writes exactly one result per invocation,
\* a success or a failure with a message: never none, never two, and no
\* error escapes to its caller.
C19_OneResult ==
  /\ Len(results) <= 1
  /\ cmd.stage # "escaped"
  /\ cmd.stage = "returned" => Len(results) = 1

\* SpecUtils: getGoogleAccessToken of utils.ts called again and again while
\* the clock moves.
NextUtils ==
  \/ GetGoogleAccessToken(1)
  \/ \E r \in ExchResps : UtilsExchangeDone(1, r)
  \/ Return(1)
  \/ Tick
  \/ LongTick

InitUtilsAny == InitQuiet /\ InitFn

SpecUtils == InitUtilsAny /\ [][NextUtils]_vars

\* C20: the token of getGoogleAccessToken is cached for 1 hour: a call made
\* within 1 hour of a successful exchange starts no new exchange.
C20_CachedOneHour ==
  \A p \in Procs :
    (cur[p].op = "getGoogleAccessToken" /\ pc[p] = "uexch") =>
      ~(cachedToken # NoToken /\ now[p] - exchangedAt < HourMs)

\* C21: right after a successful exchange the cached expiry of the instance
\* is now + expires_in * 1000 ms, with expires_in taken from the response and
\* 3600 when the response has none, and now the instant the getAccessToken
\* call read when it started, whatever time the exchange took.
C21_Expiry ==
  \A p \in Procs :
    LET k == Len(resps[p])
    IN (/\ pc[p] = "api" /\ k >= 1 /\ Len(calls[p]) = k + 1
        /\ calls[p][k].kind = "exchange"
        /\ resps[p][k].status \in 200..299) =>
         LET expires_in == IF resps[p][k].expires_in = -1
                             THEN 3600 ELSE resps[p][k].expires_in
         IN /\ accessToken[cur[p].inst] = resps[p][k].token
            /\ accessTokenExpiresAtMs[cur[p].inst] = now[p] + expires_in * 1000

\* An exchange that took 5 minutes and answered with expires_in = 600: the
\* expiry is 600 s after the start of the call, not after the answer.
C21_Witness ==
  \E p \in Procs :
    /\ pc[p] = "api" /\ Len(resps[p]) = 1 /\ Len(calls[p]) = 2
    /\ calls[p][1].kind = "exchange" /\ resps[p][1].expires_in = 600
    /\ clock = now[p] + 300000
    /\ accessTokenExpiresAtMs[cur[p].inst] = now[p] + 600000

\* C22: an invocation of request whose API call was answered, with success
\* or with an error status, has issued exactly one API call and at most one
\* exchange; the invocation the caller is in has issued one exchange when the
\* cache it read at its start was stale and none when it was valid.
C22_OneCall ==
  \A p \in Procs : \A k \in DOMAIN resps[p] :
    calls[p][k].kind = "api" =>
      LET q == calls[p][k].req
          mine == { j \in DOMAIN calls[p] : calls[p][j].req = q }
          api == { j \in mine : calls[p][j].kind = "api" }
          exch == { j \in mine : calls[p][j].kind = "exchange" }
          stale == ~(seen[p].token # NoToken
                     /\ seen[p].expiresAtMs > now[p] + 5 * 60 * 1000)
      IN /\ api = {k}
         /\ Cardinality(exch) <= 1
         /\ exch # {} => exch = {k - 1}
         /\ q = cur[p].req => (Cardinality(exch) = (IF stale THEN 1 ELSE 0))

\* A request served from a valid cache and refused by the API with 404: its
\* one API call is all it issued.
C22_Witness ==
  \E p \in Procs :
    /\ cur[p].op = "request" /\ pc[p] = "failed" /\ returns = 1
    /\ seen[p].token # NoToken /\ seen[p].expiresAtMs > now[p] + 300000
    /\ Len(calls[p]) = 1 /\ calls[p][1].kind = "api"
    /\ resps[p][1].status = 404

\* C23: a full-body replace sends at most one batch update, and the request
\* list of that batch is [insertText] or [deleteContentRange, insertText]:
\* the insert is last, puts the new text at index 1, and the delete, when
\* there is one, comes first and starts at index 1.
C23_BatchShape ==
  \A p \in Procs :
    cur[p].op = "updateById" =>
      LET batches == { k \in DOMAIN calls[p] :
                         calls[p][k].path = "documents.batchUpdate" }
      IN /\ Cardinality(batches) <= 1
         /\ \A k \in batches :
              LET reqs == calls[p][k].body[2].requests
                  n == Len(reqs)
              IN /\ calls[p][k].method = "POST"
                 /\ n \in {1, 2}
                 /\ reqs[n].type = "insertText"
                 /\ reqs[n].index = 1
                 /\ reqs[n].text = cur[p].text
                 /\ n = 2 => /\ reqs[1].type = "deleteContentRange"
                             /\ reqs[1].startIndex = 1
                             /\ reqs[1].endIndex > 1

\* A batch of two requests has been sent: the delete from index 1, then the
\* insert.
C23_Witness ==
  \E p \in Procs :
    /\ cur[p].op = "updateById" /\ pc[p] = "done"
    /\ calls[p][Len(calls[p])].path = "documents.batchUpdate"
    /\ Len(calls[p][Len(calls[p])].body[2].requests) = 2
    /\ calls[p][Len(calls[p])].body[2].requests[1].startIndex = 1
    /\ calls[p][Len(calls[p])].body[2].requests[2].type = "insertText"

\* The reads the remote document has served to caller p.
ReadsBy(p) ==
  { h \in DOMAIN history : history[h].kind = "read" /\ history[h].by = p }

\* C24: a batch update of updateById follows the one structure fetch of the
\* same call, and its delete range is the extent the document had at that
\* fetch, whatever earlier calls fetched: [1, n) for a body of n > 1
\* positions, no delete otherwise.
C24_ReadThenWrite ==
  \A p \in Procs :
    cur[p].op = "updateById" =>
      \A k \in DOMAIN calls[p] :
        calls[p][k].path = "documents.batchUpdate" =>
          LET gets == { j \in DOMAIN calls[p] : calls[p][j].path = "documents.get" }
              reqs == calls[p][k].body[2].requests
              dels == { d \in DOMAIN reqs : reqs[d].type = "deleteContentRange" }
          IN /\ Cardinality(gets) = 1
             /\ \A j \in gets : j < k /\ resps[p][j].status = 200
             /\ ReadsBy(p) # {}
             /\ LET h == CHOOSE h \in ReadsBy(p) : \A g \in ReadsBy(p) : g <= h
                     n == Len(history[h].body)
                 IN /\ dels # {} <=> n > 1
                    /\ \A d \in dels :
                         reqs[d].startIndex = 1 /\ reqs[d].endIndex = n

\* The second call on a document that another writer changed after the
\* first call: its delete range is the new extent, not the one of the first
\* call.
C24_Witness ==
  \E p \in Procs :
    /\ cur[p].op = "updateById" /\ pc[p] = "api" /\ returns = 1
    /\ Cardinality(ReadsBy(p)) = 2
    /\ \E e \in DOMAIN history, g \in ReadsBy(p) :
         /\ history[e].kind = "edit"
         /\ g < e /\ e + 1 \in ReadsBy(p)
         /\ Len(history[g].body) # Len(history[e].body)
         /\ calls[p][Len(calls[p])].body[2].requests[1] =
              DeleteContentRange(1, Len(history[e].body))

\* The expiry getAccessToken computes for the exchange answered by the k-th
\* response of caller p.
ExpiryOf(p, k) ==
  now[p] + (IF resps[p][k].expires_in = -1
              THEN 3600 ELSE resps[p][k].expires_in) * 1000

\* C25: whatever the interleaving of the callers of an instance, a cached
\* token comes with the expiry computed for the exchange that returned it.
C25_WrittenTogether ==
  \A i \in Inst :
    accessToken[i] # NoToken =>
      \E p \in Procs : \E k \in DOMAIN resps[p] :
        /\ calls[p][k].kind = "exchange" /\ calls[p][k].inst = i
        /\ resps[p][k].status \in 200..299
        /\ resps[p][k].token = accessToken[i]
        /\ accessTokenExpiresAtMs[i] = ExpiryOf(p, k)

\* Two callers of one instance were both exchanging; the exchange answered
\* last replaced a cached token of later expiry, and the cache holds its
\* token with its own, earlier expiry.
C25_Witness ==
  \E p, q \in Procs :
    /\ p # q /\ cur[p].inst = cur[q].inst
    /\ Len(resps[p]) >= 1 /\ Len(resps[q]) >= 1
    /\ calls[p][1].kind = "exchange" /\ calls[q][1].kind = "exchange"
    /\ resps[q][1].token # NoToken
    /\ resps[p][1].token > resps[q][1].token
    /\ accessToken[cur[p].inst] = resps[p][1].token
    /\ ExpiryOf(p, 1) < ExpiryOf(q, 1)
    /\ accessTokenExpiresAtMs[cur[p].inst] = ExpiryOf(p, 1)

\* C26: when the exchange endpoint answers a getAccessToken call with a
\* non-success status, the call throws the token error and the cached token
\* and expiry of every instance stay as they were before the answer.
C26_FailureKeepsCache ==
  [][ \A p \in Procs :
        (/\ pc[p] = "exch" /\ Len(resps'[p]) = Len(resps[p]) + 1
         /\ ~(resps'[p][Len(resps'[p])].status \in 200..299)) =>
          /\ pc'[p] = "failed"
          /\ outcome'[p].msg = "Erro ao obter access token"
          /\ accessToken' = accessToken
          /\ accessTokenExpiresAtMs' = accessTokenExpiresAtMs
    ]_vars

\* A token cached by an earlier call had gone stale, the exchange of the
\* next call was refused, and the old token and expiry are still cached.
C26_Witness ==
  \E p \in Procs :
    /\ pc[p] = "failed" /\ outcome[p].msg = "Erro ao obter access token"
    /\ returns = 1 /\ seen[p].token # NoToken
    /\ accessToken[cur[p].inst] = seen[p].token
    /\ accessTokenExpiresAtMs[cur[p].inst] = seen[p].expiresAtMs
    /\ seen[p].expiresAtMs > 0

\* The lifetime the token endpoint gives the token of response r, in ms: the
\* expires_in it reports, and the default hour for a response without one.
LifetimeMs(r) == (IF r.expires_in = -1 THEN 3600 ELSE r.expires_in) * 1000

\* Caller q was served from the cache: the first call of its request is the
\* API call.
Hit(q) == calls[q] # <<>> /\ calls[q][1].kind = "api"

\* C27: a token served from the cache has more than 5 minutes of lifetime
\* left at the instant of the call, for a lifetime that the endpoint starts
\* at the start of the exchanging call or later, under every interleaving of
\* the callers.
C27_ServedTokenAlive ==
  \A q \in Procs :
    Hit(q) =>
      \E p \in Procs : \E k \in DOMAIN resps[p] :
        /\ calls[p][k].kind = "exchange"
        /\ resps[p][k].token = calls[q][1].auth
        /\ now[p] <= now[q]
        /\ (now[p] + LifetimeMs(resps[p][k])) - now[q] > 5 * 60 * 1000

\* A caller is served, 10 minutes after the exchange of another caller
\* started, the token of that exchange.
C27_Witness ==
  \E p, q \in Procs :
    /\ p # q /\ Hit(q) /\ Len(resps[p]) >= 1
    /\ calls[q][1].auth = resps[p][1].token
    /\ now[q] = now[p] + 600000

\* SpecRace: all callers replace the body of the same remote document
\* concurrently, each call a structure fetch followed by its batch update.
NextRace ==
  \/ \E p \in Procs, t \in DocTexts : UpdateById(p, 1, t)
  \/ \E p \in Procs, r \in ExchResps : ExchangeDone(p, r)
  \/ \E p \in Procs : Serve(p)

SpecRace == InitDocsAny /\ [][NextRace]_vars

\* The batch update of caller p has been answered.
BatchAnswered(p) ==
  /\ cur[p].op = "updateById" /\ calls[p] # <<>>
  /\ calls[p][Len(calls[p])].path = "documents.batchUpdate"
  /\ Len(resps[p]) = Len(calls[p])

\* C28: once the batch updates of all concurrent updateById calls on a
\* document have been answered, none of them was rejected and the body is
\* the text of one of the calls followed by the final newline, with nothing
\* left of the others.
C28_OneTextSurvives ==
  (\A p \in Procs : BatchAnswered(p)) =>
    /\ \A p \in Procs : resps[p][Len(resps[p])].status = 200
    /\ \E p \in Procs : remote = cur[p].text \o <<Newline>>

\* C29: the update-spreadsheet command checks sheetId, content and the
\* credentials in this order before any network call, and sends the values
\* update only after the file metadata was fetched and names the Google
\* Sheets type: a failure of one of the first three checks is reported with
\* the message of the first check that fails and no call is made, and
\* without fetched metadata of the Sheets type there is no values update.
C29_ChecksBeforeWrite ==
  cmd.handler = "updateSpreadsheet.ts" =>
    LET prm == cmd.params
        obj == prm.shape \in {"object", "array1"}
        hasId == obj /\ prm.id
        hasContent == obj /\ prm.content
        writes == { k \in DOMAIN calls[1] :
                      calls[1][k].path = "spreadsheets.values.update" }
        metas == { k \in DOMAIN resps[1] :
                     /\ calls[1][k].path = "drive.files.get"
                     /\ resps[1][k].status \in 200..299
                     /\ resps[1][k].doc.mimeType =
                          "application/vnd.google-apps.spreadsheet" }
    IN /\ (~hasId \/ ~hasContent \/ env = "absent") =>
            /\ calls[1] = <<>>
            /\ cmd.stage = "returned" /\ Len(results) = 1 /\ ~results[1].ok
       /\ ~hasId => results[1].msg = "id e obrigatorio"
       /\ (hasId /\ ~hasContent) => results[1].msg = "content e obrigatorio"
       /\ (hasId /\ hasContent /\ env = "absent") =>
            results[1].msg = "credencial e obrigatorio"
       /\ Cardinality(writes) <= 1
       /\ \A w \in writes :
            /\ hasId /\ hasContent /\ env = "present"
            /\ \E k \in metas : k < w
       /\ (cmd.stage = "returned" /\ results[1].ok) => writes # {}

\* The command went through all its checks and its values update was
\* accepted.
C29_Witness ==
  /\ cmd.handler = "updateSpreadsheet.ts" /\ cmd.stage = "returned"
  /\ Len(results) = 1 /\ results[1].ok
  /\ \E k \in DOMAIN calls[1] :
       /\ calls[1][k].path = "spreadsheets.values.update"
       /\ resps[1][k].status = 200

\* SpecNorm: resolveA1Target on an address and then on the normalized
\* address it returned. The spreadsheets include sheets whose title ends
\* with a space, "T " next to "S" and next to "T"; such a sheet is
\* addressed with its name in quotes.
SheetPadded == SheetT \o <<Space>>
NormSpreadsheets ==
  Spreadsheets \cup
    { [kind |-> "array", list |-> <<Sheet(SheetS, 0), Sheet(SheetPadded, 9)>>],
      [kind |-> "array", list |-> <<Sheet(SheetT, 7), Sheet(SheetPadded, 9)>>] }
NormAddresses ==
  Addresses \cup
    { <<Quote>> \o SheetPadded \o <<Quote, Bang>> \o cell :
        cell \in { <<66, 50>>, <<98, Digit0, 50>> } }

InitNorm ==
  /\ InitQuiet
  /\ args \in { [fn |-> "resolveA1Target", spreadsheet |-> ss, inputRange |-> a,
                  letters |-> <<>>] : ss \in NormSpreadsheets, a \in NormAddresses }
  /\ ret = NoRet

NextNorm == Resolve \/ ResolveAgain

SpecNorm == InitNorm /\ [][NextNorm]_vars

\* C30: when resolveA1Target returns a target t for an address, it returns
\* for the address t.a1, on the same spreadsheet, a target equal to t: same
\* sheetId, same row and column ranges, same a1.
C30_Stable ==
  [][ (args.fn = "resolveA1Target" /\ args'.fn = "resolveA1Target.a1") =>
        ret' = ret ]_vars

====
